---- MODULE Spec2Model ----
(***************************************************************************)
(* PromptStudio (prompt_engine.py): the generate -> test -> score ->       *)
(* refine -> report pipeline of run_studio, the marker-based parsing of    *)
(* generate_prompts and the heuristic of score_output.                     *)
(*                                                                         *)
(* A Python str is a sequence of one-character strings; indices handed to  *)
(* find and Slice are Python's 0-based indices.                            *)
(***************************************************************************)
EXTENDS Integers, Sequences, FiniteSets, TLC

VARIABLES
    pc,              \* position of run_studio: "generate", "test", "refine", "report", "done", "raised"
    iterations,      \* run_studio's argument (number of test calls per variant)
    prompts,         \* the list of prompt_data dicts built by generate_prompts
    idx,             \* 1-based position of the test loop of run_studio in prompts
    outputs,         \* test_prompt's local list of labelled outputs
    calls,           \* every model call issued so far, with its outcome
    refined_prompt,  \* value returned by refine_prompt
    report,          \* value returned by generate_report
    seg_response,    \* a raw response handed to the parsing loop of generate_prompts
    seg_prompts,     \* the list that loop returns
    sc_prompt,       \* a prompt handed to the scoring step
    sc_output,       \* an output handed to the scoring step
    sc_data          \* the prompt_data dict of that step

vars == <<pc, iterations, prompts, idx, outputs, calls, refined_prompt, report,
          seg_response, seg_prompts, sc_prompt, sc_output, sc_data>>

pipeVars == <<pc, iterations, prompts, idx, outputs, calls, refined_prompt, report>>
segVars == <<seg_response, seg_prompts>>
scVars == <<sc_prompt, sc_output, sc_data>>

-----------------------------------------------------------------------------
(* Python str primitives                                                   *)

Whitespace == {" ", "\n", "\t", "\r"}

Digits == {"0", "1", "2", "3", "4", "5", "6", "7", "8", "9"}

UpperCase == {"A", "B", "C", "D", "E", "F", "G", "H", "I", "J", "K", "L", "M",
              "N", "O", "P", "Q", "R", "S", "T", "U", "V", "W", "X", "Y", "Z"}

LowerCase == {"a", "b", "c", "d", "e", "f", "g", "h", "i", "j", "k", "l", "m",
              "n", "o", "p", "q", "r", "s", "t", "u", "v", "w", "x", "y", "z"}

\* str.lower() on one character
LowerChar(c) ==
    CASE c = "A" -> "a" [] c = "B" -> "b" [] c = "C" -> "c" [] c = "D" -> "d"
      [] c = "E" -> "e" [] c = "F" -> "f" [] c = "G" -> "g" [] c = "H" -> "h"
      [] c = "I" -> "i" [] c = "J" -> "j" [] c = "K" -> "k" [] c = "L" -> "l"
      [] c = "M" -> "m" [] c = "N" -> "n" [] c = "O" -> "o" [] c = "P" -> "p"
      [] c = "Q" -> "q" [] c = "R" -> "r" [] c = "S" -> "s" [] c = "T" -> "t"
      [] c = "U" -> "u" [] c = "V" -> "v" [] c = "W" -> "w" [] c = "X" -> "x"
      [] c = "Y" -> "y" [] c = "Z" -> "z" [] OTHER -> c

lower(s) == [i \in 1..Len(s) |-> LowerChar(s[i])]

\* the regex class \w
IsWordChar(c) == c \in LowerCase \cup UpperCase \cup Digits \cup {"_"}

\* sub occurs in s at 0-based offset k
MatchAt(s, sub, k) ==
    /\ k >= 0
    /\ k + Len(sub) <= Len(s)
    /\ \A j \in 1..Len(sub) : s[k + j] = sub[j]

\* str.find: the lowest 0-based offset of sub in s, -1 when there is none
find(s, sub) ==
    LET hits == {k \in 0..Len(s) : MatchAt(s, sub, k)}
    IN  IF hits = {} THEN -1
        ELSE CHOOSE k \in hits : \A h \in hits : k <= h

\* s[a:b] with Python's treatment of negative and out-of-range bounds
Slice(s, a, b) ==
    LET n  == Len(s)
        a1 == IF a < 0 THEN (IF a + n < 0 THEN 0 ELSE a + n) ELSE (IF a > n THEN n ELSE a)
        b1 == IF b < 0 THEN (IF b + n < 0 THEN 0 ELSE b + n) ELSE (IF b > n THEN n ELSE b)
    IN  IF a1 >= b1 THEN <<>> ELSE SubSeq(s, a1 + 1, b1)

\* str.strip()
strip(s) ==
    LET keep == {i \in 1..Len(s) : s[i] \notin Whitespace}
    IN  IF keep = {} THEN <<>>
        ELSE SubSeq(s, CHOOSE i \in keep : \A j \in keep : i <= j,
                       CHOOSE i \in keep : \A j \in keep : i >= j)

startswith(s, pre) == MatchAt(s, pre, 0)

\* concatenation of a sequence of strings
RECURSIVE Concat(_)
Concat(ss) == IF ss = <<>> THEN <<>> ELSE Head(ss) \o Concat(Tail(ss))

-----------------------------------------------------------------------------
(* generate_prompts: parsing of the raw response                           *)

PROMPT_STYLES == << <<"C","o","n","c","i","s","e">>, <<"D","e","t","a","i","l","e","d">>, <<"S","t","r","u","c","t","u","r","e","d">>, <<"C","r","e","a","t","i","v","e">> >>

NumStyles == Len(PROMPT_STYLES)

\* f"**{style}**:"
marker(style) == <<"*","*">> \o style \o <<"*","*",":">>

start_marker(i) == marker(PROMPT_STYLES[i])

\* PROMPT_STYLES[(idx % len(PROMPT_STYLES))] of the 0-based Python list
end_marker(i) == marker(PROMPT_STYLES[(i % NumStyles) + 1])

\* the length of the marker is not added
start_idx_at_marker(response, i) == find(response, start_marker(i))

start_idx(response, i) == find(response, start_marker(i)) + Len(start_marker(i))

end_idx(response, i) ==
    IF i < NumStyles THEN find(response, end_marker(i)) ELSE Len(response)

prompt_text(response, i) == strip(Slice(response, start_idx(response, i), end_idx(response, i)))

\* f"Error: Could not generate {style} prompt."
CouldNotGenerate(style) == <<"E","r","r","o","r",":"," ","C","o","u","l","d"," ","n","o","t"," ","g","e","n","e","r","a","t","e"," ">> \o style \o <<" ","p","r","o","m","p","t",".">>

\* the loop of lines 54-68: one dict per style, in PROMPT_STYLES order
parse_response(response) ==
    [i \in 1..NumStyles |->
        LET text == prompt_text(response, i)
        IN  [id     |-> i,
             style  |-> PROMPT_STYLES[i],
             prompt |-> IF text # <<>> THEN text
                        ELSE CouldNotGenerate(PROMPT_STYLES[i])]]

-----------------------------------------------------------------------------
(* The parsing loop on its own, over bounded raw responses                 *)

MaxParts == 4

\* a raw response is an optional preamble followed by sections, each a
\* marker (of any style, in any order) followed by text
SegPrefixes == { <<>>, <<"1","."," ">> }

SegTexts == { <<" ">>, <<" ","a","b","\n">> }

SegParts == {marker(PROMPT_STYLES[i]) \o t : i \in 1..NumStyles, t \in SegTexts}

SegResponses(n) ==
    {pre \o Concat(ps) : pre \in SegPrefixes, ps \in UNION {[1..k -> SegParts] : k \in 0..n}}

IdlePipe ==
    /\ pc = "idle"
    /\ iterations = 0
    /\ prompts = <<>>
    /\ idx = 0
    /\ outputs = <<>>
    /\ calls = <<>>
    /\ refined_prompt = <<>>
    /\ report = <<>>

IdleSeg ==
    /\ seg_response = <<>>
    /\ seg_prompts = <<>>

IdleScore ==
    /\ sc_prompt = <<>>
    /\ sc_output = <<>>
    /\ sc_data = <<>>

SegInit ==
    /\ seg_response \in SegResponses(MaxParts)
    /\ seg_prompts = <<>>
    /\ IdlePipe
    /\ IdleScore

Segment ==
    /\ seg_prompts = <<>>
    /\ seg_prompts' = parse_response(seg_response)
    /\ UNCHANGED <<seg_response, pipeVars, scVars>>

SegNext == Segment

SegSpec == SegInit /\ [][SegNext]_vars

-----------------------------------------------------------------------------
(* score_output                                                            *)

\* len(s.split()): the number of maximal runs of non-whitespace characters
word_count(s) ==
    Cardinality({i \in 1..Len(s) :
        s[i] \notin Whitespace /\ (i = 1 \/ s[i - 1] \in Whitespace)})

\* len(re.findall(r'[.!?]', s))
punctuation_count(s) == Cardinality({i \in 1..Len(s) : s[i] \in {".", "!", "?"}})

\* re.search(r'\b' + w + r'\b', s) for a word w made of \w characters only
HasWholeWord(s, w) ==
    \E k \in 0..Len(s) :
        /\ MatchAt(s, w, k)
        /\ (k = 0 \/ ~IsWordChar(s[k]))
        /\ (k + Len(w) = Len(s) \/ ~IsWordChar(s[k + Len(w) + 1]))

BannedWords == { <<"l","o","r","e","m">>, <<"i","p","s","u","m">>, <<"e","r","r","o","r">> }

\* re.search(r'\b(lorem|ipsum|error)\b', output.lower())
HasBannedWord(output) ==
    LET t == lower(output)
    IN  \E w \in BannedWords : HasWholeWord(t, w)

\* set(re.findall(r'\w+', s.lower())): the maximal runs of \w characters
keywords(s) ==
    LET t      == lower(s)
        starts == {i \in 1..Len(t) : IsWordChar(t[i]) /\ (i = 1 \/ ~IsWordChar(t[i - 1]))}
        ends   == {j \in 1..Len(t) : IsWordChar(t[j]) /\ (j = Len(t) \/ ~IsWordChar(t[j + 1]))}
        last(i) == CHOOSE j \in ends : j >= i /\ \A e \in ends : e >= i => j <= e
    IN  {SubSeq(t, i, last(i)) : i \in starts}

\* lines 112-113
coherence_points(output) ==
    IF word_count(output) > 10 /\ punctuation_count(output) > 1 THEN 30 ELSE 0

\* the test of line 114 without its "not"
banned_points_inverted(output) == IF HasBannedWord(output) THEN 10 ELSE 0

\* lines 114-115
banned_points(output) == IF ~HasBannedWord(output) THEN 10 ELSE 0

\* line 123 as "if" instead of "elif"
relevance_points_both(output, prompt) ==
    LET prompt_keywords == keywords(prompt)
        output_keywords == keywords(output)
        common_keywords == Cardinality(prompt_keywords \cap output_keywords)
        denominator     == IF Cardinality(prompt_keywords) > 1
                           THEN Cardinality(prompt_keywords) ELSE 1
    IN  (IF 2 * common_keywords > denominator THEN 30 ELSE 0)
            + (IF common_keywords > 0 THEN 20 ELSE 0)

\* lines 118-124; common / max(len, 1) > 0.5 is 2 * common > max(len, 1)
relevance_points(output, prompt) ==
    LET prompt_keywords == keywords(prompt)
        output_keywords == keywords(output)
        common_keywords == Cardinality(prompt_keywords \cap output_keywords)
        denominator     == IF Cardinality(prompt_keywords) > 1
                           THEN Cardinality(prompt_keywords) ELSE 1
    IN  IF 2 * common_keywords > denominator THEN 30
        ELSE IF common_keywords > 0 THEN 20
        ELSE 0

\* lines 127-131
length_points(output) ==
    LET wc == word_count(output)
    IN  IF 50 <= wc /\ wc <= 500 THEN 20
        ELSE IF (20 <= wc /\ wc < 50) \/ (500 < wc /\ wc <= 1000) THEN 10
        ELSE 0

\* the value of the local variable score at line 133
bucket_sum(output, prompt) ==
    coherence_points(output) + banned_points(output)
        + relevance_points(output, prompt) + length_points(output)

\* line 134: min(score, 100)
score_output(output, prompt) ==
    LET score == bucket_sum(output, prompt)
    IN  IF score < 100 THEN score ELSE 100

-----------------------------------------------------------------------------
(* The body of run_studio's test loop for one prompt_data dict             *)

\* str(e) of the exceptions a model call may raise
Errors == { <<"4","0","1"," ","U","n","a","u","t","h","o","r","i","z","e","d">> }

\* lines 242-243
Tested(prompt_data, output) ==
    [k \in DOMAIN prompt_data \cup {"output", "score"} |->
        IF k = "output" THEN output
        ELSE IF k = "score" THEN score_output(output, prompt_data.prompt)
        ELSE prompt_data[k]]

\* line 245 storing str(e) alone and line 246 missing
TestFailed_unmarked(prompt_data, e) ==
    [k \in DOMAIN prompt_data \cup {"output", "score"} |->
        IF k = "output" THEN e
        ELSE IF k = "score" THEN score_output(e, prompt_data.prompt)
        ELSE prompt_data[k]]

\* lines 245-246
TestFailed(prompt_data, e) ==
    [k \in DOMAIN prompt_data \cup {"output", "score"} |->
        IF k = "output" THEN <<"E","r","r","o","r",":"," ">> \o e
        ELSE IF k = "score" THEN 0
        ELSE prompt_data[k]]

\* s repeated n times
Rep(s, n) == [i \in 1..(n * Len(s)) |-> s[((i - 1) % Len(s)) + 1]]

ScoreOutputs ==
    { <<>>,
      <<"W","r","i","t","e"," ","a"," ","b","l","o","g",".">>,
      <<"l","o","r","e","m"," ","i","p","s","u","m"," ","d","o","l","o","r">>,
      <<"A","n"," ","e","r","r","o","r"," ","o","c","c","u","r","r","e","d","!">>,
      <<"N","o"," ","e","r","r","o","r","s","?"," ","N","o","n","e","."," ","T","h","e"," ","b","l","o","g"," ","a","b","o","u","t"," ","A","I"," ","t","r","e","n","d","s"," ","i","s"," ","r","e","a","d","y"," ","t","o"," ","b","e"," ","p","u","b","l","i","s","h","e","d",".">>,
      Rep(<<"T","r","e","n","d","s","."," ">>, 25),
      Rep(<<"A","I"," ","t","r","e","n","d","s","!"," ">>, 30),
      Rep(<<"o","k"," ">>, 501),
      Rep(<<"a","\n">>, 1001) }

ScorePrompts ==
    { <<>>,
      <<"W","r","i","t","e"," ","a"," ","b","l","o","g"," ","a","b","o","u","t"," ","A","I"," ","t","r","e","n","d","s">>,
      <<"T","e","l","l"," ","a"," ","s","t","o","r","y">>,
      <<"A","I"," ","t","r","e","n","d","s">>,
      CouldNotGenerate(PROMPT_STYLES[1]) }

ScoreInit ==
    /\ sc_prompt \in ScorePrompts
    /\ sc_output \in ScoreOutputs
    /\ sc_data = [prompt |-> sc_prompt]
    /\ IdlePipe
    /\ IdleSeg

ScoreTested ==
    /\ "score" \notin DOMAIN sc_data
    /\ sc_data' = Tested(sc_data, sc_output)
    /\ UNCHANGED <<sc_prompt, sc_output, pipeVars, segVars>>

ScoreTestFailed ==
    /\ "score" \notin DOMAIN sc_data
    /\ \E e \in Errors : sc_data' = TestFailed(sc_data, e)
    /\ UNCHANGED <<sc_prompt, sc_output, pipeVars, segVars>>

ScoreNext == ScoreTested \/ ScoreTestFailed

ScoreSpec == ScoreInit /\ [][ScoreNext]_vars

-----------------------------------------------------------------------------
(* test_prompt, refine_prompt, generate_report                             *)

DigitChar(d) ==
    CASE d = 0 -> "0" [] d = 1 -> "1" [] d = 2 -> "2" [] d = 3 -> "3" [] d = 4 -> "4"
      [] d = 5 -> "5" [] d = 6 -> "6" [] d = 7 -> "7" [] d = 8 -> "8" [] d = 9 -> "9"

\* str(n) of a natural number
RECURSIVE Str(_)
Str(n) == IF n < 10 THEN <<DigitChar(n)>> ELSE Str(n \div 10) \o <<DigitChar(n % 10)>>

\* line 92 with i in place of i+1
Labelled_from_zero(k, output) == <<"I","t","e","r","a","t","i","o","n"," ">> \o Str(k - 1) \o <<":"," ">> \o output

\* line 92: f"Iteration {i+1}: {output}", k being i+1
Labelled(k, output) == <<"I","t","e","r","a","t","i","o","n"," ">> \o Str(k) \o <<":"," ">> \o output

\* line 93: "\n".join(outs)
RECURSIVE Join(_)
Join(outs) ==
    IF outs = <<>> THEN <<>>
    ELSE IF Len(outs) = 1 THEN outs[1]
    ELSE outs[1] \o <<"\n">> \o Join(Tail(outs))

\* the last maximum instead of the first
best_prompt_last(ps) ==
    ps[CHOOSE i \in 1..Len(ps) :
          /\ \A j \in 1..Len(ps) : ps[j].score <= ps[i].score
          /\ \A j \in (i + 1)..Len(ps) : ps[j].score < ps[i].score]

\* line 250: max(prompts, key=lambda p: p['score']) returns the first maximum
best_prompt(ps) ==
    ps[CHOOSE i \in 1..Len(ps) :
          /\ \A j \in 1..Len(ps) : ps[j].score <= ps[i].score
          /\ \A j \in 1..(i - 1) : ps[j].score < ps[i].score]

\* line 169 returning the (unbound, empty) refined text instead of prompt
refine_prompt_no_fallback(prompt, result) ==
    IF result.ok THEN strip(result.text) ELSE <<>>

\* lines 162-169: result is the outcome of the model call
refine_prompt(prompt, result) ==
    IF result.ok THEN strip(result.text) ELSE prompt

MaxScore(ps) == CHOOSE m \in {ps[i].score : i \in 1..Len(ps)} : \A j \in 1..Len(ps) : ps[j].score <= m

\* lines 185-218: one block per prompt_data, then the refined prompt and the summary
generate_report(ps, refined) ==
    [i \in 1..Len(ps) |->
        [id     |-> ps[i].id,
         style  |-> ps[i].style,
         prompt |-> ps[i].prompt,
         output |-> Slice(ps[i].output, 0, 500) \o <<".",".",".">>,
         score  |-> ps[i].score]]
    \o << [refined_prompt |-> refined,
           processed      |-> Len(ps),
           styles         |-> [i \in 1..Len(ps) |-> ps[i].style],
           highest_score  |-> MaxScore(ps)] >>

-----------------------------------------------------------------------------
(* run_studio                                                              *)

MaxIterations == 3

\* completions the model may return to the generation request
GenResponses ==
    { <<"1","."," ","*","*","C","o","n","c","i","s","e","*","*",":"," ","W","r","i","t","e"," ","a"," ","b","l","o","g",".","\n","2","."," ","*","*","D","e","t","a","i","l","e","d","*","*",":"," ","W","r","i","t","e"," ","a"," ","b","l","o","g"," ","a","b","o","u","t"," ","A","I",".","\n","3","."," ","*","*","S","t","r","u","c","t","u","r","e","d","*","*",":"," ","B","l","o","g",":","\n","-"," ","A","I","\n","4","."," ","*","*","C","r","e","a","t","i","v","e","*","*",":"," ","T","e","l","l"," ","a"," ","s","t","o","r","y",".">>,
      <<"*","*","C","o","n","c","i","s","e","*","*",":"," ","W","r","i","t","e"," ","a"," ","b","l","o","g",".","\n","*","*","D","e","t","a","i","l","e","d","*","*",":","\n","*","*","C","r","e","a","t","i","v","e","*","*",":"," ","A","I"," ","b","l","o","g">> }

\* completions the model may return to a test request
TestResponses == { <<"A","I"," ","b","l","o","g",".">>, <<"e","r","r","o","r">> }

\* completions the model may return to the refinement request
RefineResponses == { <<" ","W","r","i","t","e"," ","a"," ","b","l","o","g"," ","a","b","o","u","t"," ","A","I"," ","f","o","r"," ","e","x","p","e","r","t","s",".","\n">> }

Call(kind, id, iteration, ok, text) ==
    [kind |-> kind, id |-> id, iteration |-> iteration, ok |-> ok, text |-> text]

Init ==
    /\ pc = "generate"
    /\ iterations \in 1..MaxIterations
    /\ prompts = <<>>
    /\ idx = 0
    /\ outputs = <<>>
    /\ calls = <<>>
    /\ refined_prompt = <<>>
    /\ report = <<>>
    /\ IdleSeg
    /\ IdleScore

\* line 236 with lines 50-68: the generation call returns and is parsed
GenerateOk ==
    /\ pc = "generate"
    /\ \E r \in GenResponses :
          /\ calls' = Append(calls, Call("generate", 0, 0, TRUE, r))
          /\ prompts' = parse_response(r)
    /\ idx' = 1
    /\ pc' = "test"
    /\ UNCHANGED <<iterations, outputs, refined_prompt, report, segVars, scVars>>

\* lines 70-72 without the re-raise: the failure is logged and an empty
\* response is parsed
GenerateFail_swallowed ==
    /\ pc = "generate"
    /\ \E e \in Errors : calls' = Append(calls, Call("generate", 0, 0, FALSE, e))
    /\ prompts' = parse_response(<<>>)
    /\ idx' = 1
    /\ pc' = "test"
    /\ UNCHANGED <<iterations, outputs, refined_prompt, report, segVars, scVars>>

\* line 236 with lines 70-72: the generation call raises and nothing catches it
GenerateFail ==
    /\ pc = "generate"
    /\ \E e \in Errors : calls' = Append(calls, Call("generate", 0, 0, FALSE, e))
    /\ pc' = "raised"
    /\ UNCHANGED <<iterations, prompts, idx, outputs, refined_prompt, report, segVars, scVars>>

\* line 239: the for loop moves to the next prompt_data, or ends
AfterVariant(i) == IF i < Len(prompts) THEN "test" ELSE "refine"

\* range(iterations + 1)
MoreIterations_one_more(k) == k <= iterations

\* line 90: for i in range(iterations), after k calls of the loop have returned
MoreIterations(k) == k < iterations

\* The completions a test call for variant i may return.  The requests of one
\* variant are identical (line 91 sends the same prompt to the same model), and
\* the model answers a repeated request with the completion it gave before.
Replies(i) ==
    LET answered == {k \in 1..Len(calls) :
                        calls[k].kind = "test" /\ calls[k].id = i /\ calls[k].ok}
    IN  IF answered = {} THEN TestResponses
        ELSE {calls[k].text : k \in answered}

\* lines 90-93 and 241-243: one test call returns
TestCallOk ==
    /\ pc = "test"
    /\ \E r \in Replies(prompts[idx].id) :
          LET k    == Len(outputs) + 1
              outs == Append(outputs, Labelled(k, r))
          IN  /\ calls' = Append(calls, Call("test", prompts[idx].id, k, TRUE, r))
              /\ IF MoreIterations(k)
                 THEN /\ outputs' = outs
                      /\ UNCHANGED <<prompts, idx, pc>>
                 ELSE /\ outputs' = <<>>
                      /\ prompts' = [prompts EXCEPT ![idx] = Tested(@, Join(outs))]
                      /\ pc' = AfterVariant(idx)
                      /\ idx' = IF AfterVariant(idx) = "test" THEN idx + 1 ELSE idx
    /\ UNCHANGED <<iterations, refined_prompt, report, segVars, scVars>>

\* lines 94-96 and 244-247: one test call raises
TestCallFail ==
    /\ pc = "test"
    /\ \E e \in Errors :
          /\ calls' = Append(calls, Call("test", prompts[idx].id, Len(outputs) + 1, FALSE, e))
          /\ prompts' = [prompts EXCEPT ![idx] = TestFailed(@, e)]
    /\ outputs' = <<>>
    /\ pc' = AfterVariant(idx)
    /\ idx' = IF AfterVariant(idx) = "test" THEN idx + 1 ELSE idx
    /\ UNCHANGED <<iterations, refined_prompt, report, segVars, scVars>>

\* lines 250-251: the best prompt_data is refined; the call returns or raises
Refine ==
    /\ pc = "refine"
    /\ \E result \in [ok : {TRUE}, text : RefineResponses] \cup [ok : {FALSE}, text : Errors] :
          /\ calls' = Append(calls, Call("refine", best_prompt(prompts).id, 0, result.ok, result.text))
          /\ refined_prompt' = refine_prompt(best_prompt(prompts).prompt, result)
    /\ pc' = "report"
    /\ UNCHANGED <<iterations, prompts, idx, outputs, report, segVars, scVars>>

\* lines 254-260
Report ==
    /\ pc = "report"
    /\ report' = generate_report(prompts, refined_prompt)
    /\ pc' = "done"
    /\ UNCHANGED <<iterations, prompts, idx, outputs, calls, refined_prompt, segVars, scVars>>

Next ==
    \/ GenerateOk
    \/ GenerateFail
    \/ TestCallOk
    \/ TestCallFail
    \/ Refine
    \/ Report

Spec == Init /\ [][Next]_vars

-----------------------------------------------------------------------------
(* Properties of the parsing loop                                          *)

Segmented == seg_prompts # <<>>

MarkerMissing(response, i) == find(response, start_marker(i)) = -1

\* every marker occurs, and the first occurrences are in PROMPT_STYLES order
AllMarkersInOrder(response) ==
    /\ \A i \in 1..NumStyles : ~MarkerMissing(response, i)
    /\ \A i \in 1..(NumStyles - 1) :
          find(response, start_marker(i)) < find(response, start_marker(i + 1))

\* the text after the end of marker i, up to the start of the next style's
\* marker (to the end of the response for the last style), trimmed
Between(response, i) ==
    LET from == find(response, start_marker(i)) + Len(start_marker(i)) + 1
        to   == IF i < NumStyles THEN find(response, start_marker(i + 1))
                ELSE Len(response)
    IN  strip(SubSeq(response, from, to))

FourVariantsInOrder ==
    /\ Len(seg_prompts) = 4
    /\ \A i \in 1..4 : seg_prompts[i].id = i /\ seg_prompts[i].style = PROMPT_STYLES[i]

\* C2: whenever a marker is missing from the raw response, the loop returns
\* 4 variants (ids 1..4, styles in order) and the variant of every style
\* whose marker is missing carries the "Could not generate" sentinel.
C2_MissingMarkerGivesSentinel ==
    (Segmented /\ \E i \in 1..NumStyles : MarkerMissing(seg_response, i)) =>
        /\ FourVariantsInOrder
        /\ \A i \in 1..NumStyles :
              MarkerMissing(seg_response, i) =>
                  seg_prompts[i].prompt = CouldNotGenerate(PROMPT_STYLES[i])

\* C3 as stated: with all 4 markers in canonical order every variant's text
\* is the trimmed text between its marker and the next, and never the sentinel.
C3_NeverSentinel ==
    (Segmented /\ AllMarkersInOrder(seg_response)) =>
        /\ FourVariantsInOrder
        /\ \A i \in 1..NumStyles :
              /\ seg_prompts[i].prompt # CouldNotGenerate(PROMPT_STYLES[i])
              /\ seg_prompts[i].prompt = Between(seg_response, i)

\* C3 amended: with all 4 markers in canonical order every variant's text is
\* the trimmed text between its marker and the next when that text is not
\* empty, and the sentinel of its style when it is empty.
C3_SegmentsBetweenMarkers ==
    (Segmented /\ AllMarkersInOrder(seg_response)) =>
        /\ FourVariantsInOrder
        /\ \A i \in 1..NumStyles :
              seg_prompts[i].prompt =
                  IF Between(seg_response, i) # <<>>
                  THEN Between(seg_response, i)
                  ELSE CouldNotGenerate(PROMPT_STYLES[i])

C3_Witness ==
    /\ Segmented
    /\ AllMarkersInOrder(seg_response)
    /\ \E i \in 1..NumStyles :
          /\ Between(seg_response, i) # <<>>
          /\ seg_prompts[i].prompt = Between(seg_response, i)
    /\ \E j \in 1..NumStyles :
          /\ Between(seg_response, j) = <<>>
          /\ seg_prompts[j].prompt = CouldNotGenerate(PROMPT_STYLES[j])

-----------------------------------------------------------------------------
(* Properties of score_output                                              *)

\* the dict got its score from line 243
ScoreComputed == "score" \in DOMAIN sc_data /\ sc_data.output = sc_output

\* C4 as stated: score_output("", p) is 0 for every prompt p.
C4_EmptyOutputScoresZero ==
    (ScoreComputed /\ sc_output = <<>>) => sc_data.score = 0

\* C4 amended: score_output("", p) is 10 for every prompt p: the empty output
\* earns nothing for coherence, relevance and length, and earns the 10
\* points for containing none of the words lorem, ipsum, error.
C4_EmptyOutputScoresTen ==
    (ScoreComputed /\ sc_output = <<>>) =>
        /\ sc_data.score = 10
        /\ coherence_points(sc_output) = 0
        /\ relevance_points(sc_output, sc_prompt) = 0
        /\ length_points(sc_output) = 0

C4_Witness == ScoreComputed /\ sc_output = <<>> /\ sc_prompt # <<>>

\* C8: every assigned score is an integer in [0,100]; a computed score is
\* the sum of the buckets, which is at most 90, so that the final min() does
\* not change it; a score forced by a test failure is 0.
C8_ScoreRange ==
    "score" \in DOMAIN sc_data =>
        /\ sc_data.score \in 0..100
        /\ IF ScoreComputed
           THEN /\ bucket_sum(sc_output, sc_prompt) <= 90
                /\ sc_data.score = bucket_sum(sc_output, sc_prompt)
           ELSE sc_data.score = 0

C8_Witness == ScoreComputed /\ sc_data.score = 90

-----------------------------------------------------------------------------
(* Properties of run_studio                                                *)

TestCallsOf(cs, i) == SelectSeq(cs, LAMBDA c : c.kind = "test" /\ c.id = i)

IsFinished(ps, i) == "score" \in DOMAIN ps[i]

IterationLabel(k) == <<"I","t","e","r","a","t","i","o","n"," ">> \o Str(k) \o <<":"," ">>

\* the joined, labelled responses of the test calls of variant i
ExpectedOutput(cs, i) ==
    LET tc == TestCallsOf(cs, i)
    IN  Concat([k \in 1..Len(tc) |->
            (IF k > 1 THEN <<"\n">> ELSE <<>>) \o IterationLabel(k) \o tc[k].text])

FailedVariant(cs, i) == \E k \in 1..Len(cs) : cs[k].kind = "test" /\ cs[k].id = i /\ ~cs[k].ok

Contains(s, sub) == find(s, sub) >= 0

RefineCalls == {k \in 1..Len(calls) : calls[k].kind = "refine"}

\* what one step of the run guarantees about the variants
C1_Step ==
    /\ pc = "test" =>
          /\ pc' \in {"test", "refine"}
          /\ Len(prompts') = 4
          /\ \A j \in 1..4 : prompts'[j].id = j /\ prompts'[j].prompt = prompts[j].prompt
          /\ \A j \in (1..4) \ {idx} : prompts'[j] = prompts[j]
          /\ IsFinished(prompts', idx) =>
                LET tc == TestCallsOf(calls', idx)
                IN  IF ~tc[Len(tc)].ok
                    THEN /\ startswith(prompts'[idx].output, <<"E","r","r","o","r",":"," ">>)
                         /\ prompts'[idx].score = 0
                    ELSE /\ prompts'[idx].output = ExpectedOutput(calls', idx)
                         /\ prompts'[idx].score =
                               score_output(ExpectedOutput(calls', idx), prompts[idx].prompt)
    /\ pc \in {"refine", "report"} => pc' # "raised" /\ prompts' = prompts

\* C1: after a successful generation the run never raises during the test
\* loop and keeps 4 variants with ids 1..4; a step of the loop changes only
\* the variant under test; a variant whose test call failed gets an output
\* beginning with "Error: " and score 0; a variant whose calls all returned
\* gets the output and score determined by its own responses and prompt only;
\* nothing changes the variants between the loop and the returned result.
C1_FailureIsolation == [][C1_Step]_vars

C1_Witness ==
    /\ pc = "done"
    /\ \E i \in 1..4 : FailedVariant(calls, i) /\ prompts[i].score = 0
    /\ \E j \in 1..4 : ~FailedVariant(calls, j) /\ prompts[j].score > 0
    /\ \E i, j \in 1..4 : i < j /\ FailedVariant(calls, i) /\ ~FailedVariant(calls, j)

\* C5: the variant handed to refine_prompt has the maximum score, is the
\* lowest id among the variants at the maximum, and is a variant whose test
\* failed only when every score is 0.
C5_BestIsFirstMaximum ==
    \A k \in RefineCalls :
        LET b == calls[k].id
        IN  /\ b \in 1..4
            /\ \A j \in 1..4 : prompts[j].score <= prompts[b].score
            /\ \A j \in 1..(b - 1) : prompts[j].score < prompts[b].score
            /\ FailedVariant(calls, b) => \A j \in 1..4 : prompts[j].score = 0

C5_Witness ==
    /\ pc = "done"
    /\ \E k \in RefineCalls :
          LET b == calls[k].id
          IN  /\ prompts[b].score > 0
              /\ \E j \in (b + 1)..4 : prompts[j].score = prompts[b].score
              /\ \E j \in 1..(b - 1) : FailedVariant(calls, j)

\* C6: when the refinement call fails the run does not raise, refined_prompt
\* is the prompt of the variant that was handed to refine_prompt, the report
\* step can run, and the returned result has that refined_prompt and a report.
C6_RefineFallback ==
    \A k \in RefineCalls :
        ~calls[k].ok =>
            /\ pc \in {"report", "done"}
            /\ refined_prompt = prompts[calls[k].id].prompt
            /\ pc = "report" => ENABLED Report
            /\ pc = "done" =>
                  /\ report # <<>>
                  /\ report[Len(report)].refined_prompt = prompts[calls[k].id].prompt

C6_Witness ==
    /\ pc = "done"
    /\ \E k \in RefineCalls : ~calls[k].ok
    /\ \E i \in 1..4 : prompts[i].prompt # refined_prompt

\* C7: when the generation call fails the run raises: no variants, no
\* refined prompt and no report exist, the failed call is the only call ever
\* issued, and no further step is possible.
C7_GenerationFailureFatal ==
    (calls # <<>> /\ calls[1].kind = "generate" /\ ~calls[1].ok) =>
        /\ pc = "raised"
        /\ Len(calls) = 1
        /\ prompts = <<>>
        /\ refined_prompt = <<>>
        /\ report = <<>>
        /\ ~ENABLED Next

C7_Witness == pc = "raised" /\ Len(calls) = 1 /\ ~calls[1].ok

\* position of a call in the order generate, test 1..4, refine
CallRank(c) == IF c.kind = "generate" THEN 0 ELSE IF c.kind = "test" THEN c.id ELSE 5

\* position of the run
StageRank(p, i) ==
    CASE p = "generate" -> 0 [] p = "test" -> i [] p = "refine" -> 5
      [] p = "report" -> 6 [] p = "done" -> 7 [] p = "raised" -> 8

C9_Order ==
    /\ calls # <<>> => calls[1].kind = "generate"
    /\ \A k \in 2..Len(calls) : calls[k].kind # "generate"
    /\ \A k \in 1..(Len(calls) - 1) : CallRank(calls[k]) <= CallRank(calls[k + 1])
    /\ prompts # <<>> =>
          \A i \in 1..4 :
              LET tc == TestCallsOf(calls, i)
              IN  /\ Len(tc) <= iterations
                  /\ \A k \in 1..Len(tc) : tc[k].iteration = k
    /\ Cardinality(RefineCalls) <= 1
    /\ RefineCalls # {} => \A i \in 1..4 : {"output", "score"} \subseteq DOMAIN prompts[i]
    /\ report # <<>> => RefineCalls # {}
    /\ pc = "done" => Cardinality(RefineCalls) = 1 /\ report # <<>>

\* C9: the calls are issued in the order generate, test of variant 1..4,
\* refine; a variant gets at most `iterations` test calls; there is at most
\* one refinement call, issued only when all 4 variants have output and
\* score, and exactly one in a completed run; the report follows the
\* refinement; the run never goes back to an earlier stage or variant.
C9_StageOrder ==
    []C9_Order /\ [][StageRank(pc', idx') >= StageRank(pc, idx)]_vars

C9_Witness ==
    /\ pc = "done"
    /\ iterations = 3
    /\ Len(calls) = 14

\* what a step of the test loop guarantees about the variant under test
C10_Step ==
    pc = "test" =>
        LET tc   == TestCallsOf(calls', idx)
            last == tc[Len(tc)]
        IN  IF ~last.ok
            THEN \* the failing call ends the variant: error output, score 0
                 /\ pc' = "refine" \/ idx' = idx + 1
                 /\ prompts'[idx].output = <<"E","r","r","o","r",":"," ">> \o last.text
                 /\ prompts'[idx].score = 0
                 /\ ~Contains(prompts'[idx].output, <<"I","t","e","r","a","t","i","o","n"," ","1",":"," ">>)
            ELSE /\ \A k \in 1..Len(tc) : tc[k].ok
                 /\ IF Len(tc) < iterations
                    THEN ~IsFinished(prompts', idx) /\ pc' = "test" /\ idx' = idx
                    ELSE /\ Len(tc) = iterations
                         /\ prompts'[idx].output = ExpectedOutput(calls', idx)
                         /\ \A k \in 1..iterations :
                               Contains(prompts'[idx].output, IterationLabel(k) \o tc[k].text)

====
